---- MODULE Spec2Model ----
(***************************************************************************)
(* Model of the dev-server HTML entry asset (turbopack-dev-server,         *)
(* src/html.rs) and of the static asset support (turbopack-static,         *)
(* src/lib.rs).                                                            *)
(*                                                                         *)
(* Strings are sequences of one-character strings, so that formatting,     *)
(* concatenation, suffix tests and the byte streams fed to the hashers are *)
(* computed character by character as the code computes them.  Option<T>   *)
(* is a sequence of length at most one: None is the empty sequence and    *)
(* Some(x) the sequence of x alone.                                        *)
(***************************************************************************)
EXTENDS Integers, Sequences, FiniteSets, TLC

VARIABLES
    this,           \* the DevHtmlAsset: [path, chunk_groups]
    later,          \* the DevHtmlAsset of the next generation pass, if one is to come
    content,        \* the DevHtmlAssetContent cell of `this`, or NoContent
    from_version,   \* the version last handed to the caller, with its content
    result,         \* what the last operation on the HTML asset returned
    a_entries,      \* fingerprint study: chunk_paths of version a
    b_entries,      \* fingerprint study: chunk_paths of version b
    a_id,           \* fingerprint study: result of a.id()
    b_id,           \* fingerprint study: result of b.id()
    sources,        \* static assets: the two source assets [path, content]
    context,        \* static assets: the chunking context (its asset root)
    resolved,       \* static assets: result of StaticAsset::path per source
    es_refs,        \* static assets: ModuleChunkItem::references result
    es_content,     \* static assets: ModuleChunkItem::content result
    css_refs,       \* static assets: StaticCssEmbed::references result
    css_asset       \* static assets: StaticCssEmbed::embeddable_asset result

html_vars == <<this, later, content, from_version, result>>
id_vars == <<a_entries, b_entries, a_id, b_id>>
static_vars == <<sources, context, resolved, es_refs, es_content, css_refs, css_asset>>
vars == <<this, later, content, from_version, result, a_entries, b_entries, a_id, b_id,
          sources, context, resolved, es_refs, es_content, css_refs, css_asset>>

(***************************************************************************)
(* Bounds of the model.                                                    *)
(***************************************************************************)
\* chunk groups of a DevHtmlAsset
MaxGroups == 2
\* chunks over all the groups of a DevHtmlAsset
MaxChunks == 3
\* chunks of a DevHtmlAsset that is generated twice
MaxUpdateChunks == 2
\* entries of a version in the fingerprint study
MaxEntries == 2
\* bytes of a static source file
MaxBytes == 1

(***************************************************************************)
(* Strings.                                                                *)
(***************************************************************************)
None == <<>>

Some(x) == <<x>>

\* the printable ASCII characters, from code 32 (space) to code 126 (~); the
\* grave accent (code 96), which no string of the model holds, is spelled out
PrintableAscii ==
    <<" ", "!", "\"", "#", "$", "%", "&", "'", "(", ")", "*", "+", ",", "-", ".", "/",
      "0", "1", "2", "3", "4", "5", "6", "7", "8", "9", ":", ";", "<", "=", ">", "?",
      "@", "A", "B", "C", "D", "E", "F", "G", "H", "I", "J", "K", "L", "M", "N", "O",
      "P", "Q", "R", "S", "T", "U", "V", "W", "X", "Y", "Z", "[", "\\", "]", "^", "_",
      "GRAVE", "a", "b", "c", "d", "e", "f", "g", "h", "i", "j", "k", "l", "m", "n", "o",
      "p", "q", "r", "s", "t", "u", "v", "w", "x", "y", "z", "{", "|", "}", "~">>

\* str::as_bytes: the byte of every character (the model's strings are ASCII)
AsBytes(s) ==
    [i \in 1..Len(s) |-> 31 + (CHOOSE k \in 1..Len(PrintableAscii) : PrintableAscii[k] = s[i])]

HexDigits ==
    <<"0", "1", "2", "3", "4", "5", "6", "7", "8", "9", "a", "b", "c", "d", "e", "f">>

\* lower-case base-16 text of a byte sequence, two digits per byte
RECURSIVE HexOf(_)
HexOf(bytes) ==
    IF bytes = <<>> THEN <<>>
    ELSE <<HexDigits[(Head(bytes) \div 16) + 1], HexDigits[(Head(bytes) % 16) + 1]>>
         \o HexOf(Tail(bytes))

\* str::ends_with
EndsWith(s, suffix) ==
    /\ Len(s) >= Len(suffix)
    /\ SubSeq(s, Len(s) - Len(suffix) + 1, Len(s)) = suffix

\* str::starts_with
StartsWith(s, prefix) ==
    /\ Len(s) >= Len(prefix)
    /\ SubSeq(s, 1, Len(prefix)) = prefix

\* [String]::join
RECURSIVE Join(_, _)
Join(strs, sep) ==
    IF strs = <<>> THEN <<>>
    ELSE IF Len(strs) = 1 THEN strs[1]
    ELSE strs[1] \o sep \o Join(Tail(strs), sep)

\* all sequences over S of length at most n
SeqsUpTo(S, n) == UNION {[1..k -> S] : k \in 0..n}

(***************************************************************************)
(* File system paths (turbo_tasks_fs, a collaborator).                     *)
(***************************************************************************)
\* position of the last "/" of a path, 0 when there is none
LastSlash(p) ==
    IF \E i \in 1..Len(p) : p[i] = "/"
    THEN CHOOSE i \in 1..Len(p) : p[i] = "/" /\ \A j \in (i + 1)..Len(p) : p[j] # "/"
    ELSE 0

\* FileSystemPathVc::parent: the path without its last segment
Parent(fsp) ==
    [fs |-> fsp.fs,
     path |-> IF LastSlash(fsp.path) = 0 THEN <<>>
              ELSE SubSeq(fsp.path, 1, LastSlash(fsp.path) - 1)]

\* FileSystemPathVc::join: a path below this one, on the same file system
PathJoin(fsp, rel) ==
    [fs |-> fsp.fs,
     path |-> IF fsp.path = <<>> THEN rel ELSE fsp.path \o <<"/">> \o rel]

\* FileSystemPath::get_relative_path_to: the path of `other` as seen from the
\* directory `dir`, None when it cannot be expressed relative to it
GetRelativePathTo(dir, other) ==
    IF dir.fs # other.fs THEN None
    ELSE IF dir.path = <<>> THEN Some(other.path)
    ELSE IF StartsWith(other.path, dir.path \o <<"/">>)
         THEN Some(SubSeq(other.path, Len(dir.path) + 2, Len(other.path)))
    ELSE None

\* FileSystemPath::extension: the text after the last "." of the last segment
Extension(p) ==
    LET dots == {i \in (LastSlash(p) + 1)..Len(p) : p[i] = "."}
    IN  IF dots = {} THEN None
        ELSE LET d == CHOOSE i \in dots : \A j \in dots : j <= i
             IN  Some(SubSeq(p, d + 1, Len(p)))

\* Display of a FileSystemPath, as used by format!("{}", path)
PathDisplay(fsp) == fsp.path

(***************************************************************************)
(* Hashing (turbopack_hash, a collaborator).  The 64-bit hash is taken as  *)
(* collision-free on the byte stream it is fed: the digest stands for the  *)
(* stream itself, and its text is the base-16 text of that stream.         *)
(***************************************************************************)
\* Xxh3Hash64Hasher::new
Xxh3New == <<>>

\* Xxh3Hash64Hasher::write: the bytes are appended to the stream hashed so far
Xxh3Write(hasher, bytes) == hasher \o bytes

\* Xxh3Hash64Hasher::finish
Xxh3Finish(hasher) == hasher

\* turbopack_hash::encode_hex
EncodeHex(hash) == HexOf(hash)

(***************************************************************************)
(* String constants of html.rs.                                            *)
(***************************************************************************)
\* the subpath of the HTML runtime below the directory of the document
RuntimeSubpath ==
    <<"_", "t", "u", "r", "b", "o", "p", "a", "c", "k", "/", "h", "t", "m", "l", "-",
      "r", "u", "n", "t", "i", "m", "e", ".", "j", "s">>

\* "<script src=\"{}\"></script>" up to the placeholder
ScriptOpen ==
    <<"<", "s", "c", "r", "i", "p", "t", " ", "s", "r", "c", "=", "\"">>

\* ... and after it
ScriptClose ==
    <<"\"", ">", "<", "/", "s", "c", "r", "i", "p", "t", ">">>

\* "<link data-turbopack-chunk-id=\"{}\" rel=\"stylesheet\" href=\"{}\">": before the chunk id
LinkOpen ==
    <<"<", "l", "i", "n", "k", " ", "d", "a", "t", "a", "-", "t", "u", "r", "b", "o",
      "p", "a", "c", "k", "-", "c", "h", "u", "n", "k", "-", "i", "d", "=", "\"">>

\* ... between the chunk id and the relative path
LinkMiddle ==
    <<"\"", " ", "r", "e", "l", "=", "\"", "s", "t", "y", "l", "e", "s", "h", "e", "e",
      "t", "\"", " ", "h", "r", "e", "f", "=", "\"">>

\* ... and after the relative path
LinkClose ==
    <<"\"", ">">>

\* the HTML template before the stylesheets
HtmlHead ==
    <<"<", "!", "D", "O", "C", "T", "Y", "P", "E", " ", "h", "t", "m", "l", ">", "\n",
      "<", "h", "t", "m", "l", ">", "\n", "<", "h", "e", "a", "d", ">", "\n">>

\* ... between the stylesheets and the scripts
HtmlMiddle ==
    <<"\n", "<", "/", "h", "e", "a", "d", ">", "\n", "<", "b", "o", "d", "y", ">",
      "\n", "<", "d", "i", "v", " ", "i", "d", "=", "r", "o", "o", "t", ">", "<", "/",
      "d", "i", "v", ">", "\n">>

\* ... and after the scripts
HtmlTail ==
    <<"\n", "<", "/", "b", "o", "d", "y", ">", "\n", "<", "/", "h", "t", "m", "l", ">">>

\* the message of the unknown-asset-type error, before the relative path
UnknownAssetTypeMsg ==
    <<"c", "h", "u", "n", "k", " ", "w", "i", "t", "h", " ", "u", "n", "k", "n", "o",
      "w", "n", " ", "a", "s", "s", "e", "t", " ", "t", "y", "p", "e", ":", " ">>

\* the message of the error for a runtime path that is not relative
RuntimeUnreachableMsg ==
    <<"h", "t", "m", "l", " ", "r", "u", "n", "t", "i", "m", "e", " ", "p", "a", "t",
      "h", " ", "i", "s", " ", "n", "o", "t", " ", "r", "e", "l", "a", "t", "i", "v",
      "e", " ", "t", "o", " ", "c", "o", "n", "t", "e", "x", "t", " ", "p", "a", "t",
      "h">>

DotJs ==
    <<".", "j", "s">>

DotCss ==
    <<".", "c", "s", "s">>

(***************************************************************************)
(* The chunking collaborator: chunk handles, each with its path and the    *)
(* identifier string its path converts to.                                 *)
(***************************************************************************)
\* the path of the HTML document
DocumentPath == [fs |-> "root", path |-> <<"d", "/", "i", "n", "d", "e", "x", ".", "h", "t", "m", "l">>]

\* a script chunk next to the document
ChunkJs == [path |-> [fs |-> "root", path |-> <<"d", "/", "a", ".", "j", "s">>], id |-> <<"c", "1">>]

\* two stylesheet chunks next to the document
ChunkCss == [path |-> [fs |-> "root", path |-> <<"d", "/", "b", ".", "c", "s", "s">>], id |-> <<"c", "2">>]

ChunkCss2 == [path |-> [fs |-> "root", path |-> <<"d", "/", "e", ".", "c", "s", "s">>], id |-> <<"c", "3">>]

\* two chunks that are neither scripts nor stylesheets
ChunkOdd2 == [path |-> [fs |-> "root", path |-> <<"d", "/", "t", ".", "t", "x", "t">>], id |-> <<"c", "6">>]

ChunkOdd == [path |-> [fs |-> "root", path |-> <<"d", "/", "a", ".", "j", "s", "c">>], id |-> <<"1">>]

\* a chunk on another file system, not expressible relative to the document
ChunkElsewhere == [path |-> [fs |-> "other", path |-> <<"d", "/", "a", ".", "j", "s">>], id |-> <<"c", "4">>]

\* a chunk written where the HTML runtime is
ChunkAtRuntime ==
    [path |-> [fs |-> "root", path |-> <<"d", "/">> \o RuntimeSubpath], id |-> <<"c", "5">>]

Chunks ==
    {ChunkJs, ChunkCss, ChunkCss2, ChunkOdd, ChunkOdd2, ChunkElsewhere, ChunkAtRuntime}

\* the chunks of the assets that are generated twice
UpdateChunks == {ChunkJs, ChunkCss, ChunkOdd, ChunkElsewhere}

\* Chunk::path
ChunkPath(chunk) == chunk.path

\* ValueToString::to_string of a chunk's path: the chunk's identifier string
PathToString(chunk) == chunk.id

\* ChunkGroupVc::chunks: the chunks of a group, in the group's order
GroupChunks(chunk_group) == chunk_group

\* the groups a list of chunks can be cut into: cuts[i] chunks lie in the first
\* i groups
CutsOf(n, g) ==
    {cuts \in [1..g -> 0..n] :
        /\ g > 0 => cuts[g] = n
        /\ \A i \in 1..(g - 1) : cuts[i] <= cuts[i + 1]}

SplitAt(flat, cuts) ==
    [i \in 1..Len(cuts) |->
        SubSeq(flat, (IF i = 1 THEN 0 ELSE cuts[i - 1]) + 1, cuts[i])]

\* what a DevHtmlAsset can be given: at most MaxGroups groups holding at most
\* MaxChunks chunks in all
ChunkGroupSeqs ==
    {SplitAt(flat, cuts) :
        <<flat, cuts>> \in
            UNION {{flat} \X CutsOf(Len(flat), g) :
                     <<flat, g>> \in {fg \in SeqsUpTo(Chunks, MaxChunks) \X (0..MaxGroups) :
                                        fg[2] = 0 => fg[1] = <<>>}}}

\* what a DevHtmlAsset generated twice is given: one group of at most
\* MaxUpdateChunks chunks
UpdateChunkGroupSeqs == {<<flat>> : flat \in SeqsUpTo(UpdateChunks, MaxUpdateChunks)}

(***************************************************************************)
(* html.rs.                                                                *)
(***************************************************************************)
NoAsset == [kind |-> "none"]

NoContent == [kind |-> "none"]

NoVersion == [kind |-> "none"]

NoResult == [op |-> "none"]

\* a version of some other versioned content, not a DevHtmlAssetVersion
OtherVersion == [type |-> "OtherVersion"]

\* DevHtmlAssetVc::html_runtime_reference: the path of the HTML runtime asset
HtmlRuntimePath(asset) == PathJoin(Parent(asset.path), RuntimeSubpath)

\* html_content, the loop over the chunk groups and their chunks: the
\* (relative path, chunk id) pairs of the chunks that have a relative path
\* the loop as it would be if every pair were pushed at the front of the list
RECURSIVE GroupChunkPathsFront(_, _, _)
GroupChunkPathsFront(context_path, chunks, chunk_paths) ==
    IF chunks = <<>> THEN chunk_paths
    ELSE LET chunk == Head(chunks)
             chunk_id == PathToString(chunk)
             relative_path == GetRelativePathTo(context_path, ChunkPath(chunk))
         IN  GroupChunkPathsFront(context_path, Tail(chunks),
                 IF relative_path # None
                 THEN <<<<relative_path[1], chunk_id>>>> \o chunk_paths
                 ELSE chunk_paths)

RECURSIVE GroupChunkPaths(_, _, _)
GroupChunkPaths(context_path, chunks, chunk_paths) ==
    IF chunks = <<>> THEN chunk_paths
    ELSE LET chunk == Head(chunks)
             chunk_id == PathToString(chunk)
             relative_path == GetRelativePathTo(context_path, ChunkPath(chunk))
         IN  GroupChunkPaths(context_path, Tail(chunks),
                 IF relative_path # None
                 THEN Append(chunk_paths, <<relative_path[1], chunk_id>>)
                 ELSE chunk_paths)

RECURSIVE ChunkPaths(_, _, _)
ChunkPaths(context_path, chunk_groups, chunk_paths) ==
    IF chunk_groups = <<>> THEN chunk_paths
    ELSE ChunkPaths(context_path, Tail(chunk_groups),
             GroupChunkPaths(context_path, GroupChunks(Head(chunk_groups)), chunk_paths))

\* DevHtmlAssetContent::new
DevHtmlAssetContentNew(chunk_paths, html_runtime_path) ==
    [kind |-> "DevHtmlAssetContent",
     chunk_paths |-> chunk_paths,
     html_runtime_path |-> html_runtime_path]

\* DevHtmlAssetVc::html_content
HtmlContentOf(asset) ==
    LET context_path == Parent(asset.path)
        chunk_paths == ChunkPaths(context_path, asset.chunk_groups, <<>>)
        html_runtime_path == GetRelativePathTo(context_path, HtmlRuntimePath(asset))
    IN  IF html_runtime_path = None
        THEN [kind |-> "Err", msg |-> RuntimeUnreachableMsg]
        ELSE DevHtmlAssetContentNew(chunk_paths, html_runtime_path[1])

\* format!("<script src=\"{}\"></script>", path)
ScriptTag(path) == ScriptOpen \o path \o ScriptClose

\* format!("<link data-turbopack-chunk-id=\"{}\" rel=\"stylesheet\" href=\"{}\">", ..)
LinkTag(chunk_id, relative_path) ==
    LinkOpen \o chunk_id \o LinkMiddle \o relative_path \o LinkClose

\* the template as it would be filled with the two lists taken for each other
HtmlDocumentSwapped(stylesheets, scripts) ==
    HtmlHead \o Join(scripts, <<"\n">>) \o HtmlMiddle \o Join(stylesheets, <<"\n">>)
    \o HtmlTail

\* the HTML template filled with the two joined tag lists
HtmlDocument(stylesheets, scripts) ==
    HtmlHead \o Join(stylesheets, <<"\n">>) \o HtmlMiddle \o Join(scripts, <<"\n">>)
    \o HtmlTail

\* the loop as it would be if an entry of unknown type were passed over
RECURSIVE ContentLoopSkipUnknown(_, _, _)
ContentLoopSkipUnknown(chunk_paths, scripts, stylesheets) ==
    IF chunk_paths = <<>>
    THEN [op |-> "content", kind |-> "Ok", html |-> HtmlDocument(stylesheets, scripts)]
    ELSE LET relative_path == Head(chunk_paths)[1]
             chunk_id == Head(chunk_paths)[2]
         IN  IF EndsWith(relative_path, DotJs)
             THEN ContentLoopSkipUnknown(Tail(chunk_paths),
                      Append(scripts, ScriptTag(relative_path)), stylesheets)
             ELSE IF EndsWith(relative_path, DotCss)
             THEN ContentLoopSkipUnknown(Tail(chunk_paths), scripts,
                      Append(stylesheets, LinkTag(chunk_id, relative_path)))
             ELSE ContentLoopSkipUnknown(Tail(chunk_paths), scripts, stylesheets)

\* DevHtmlAssetContentVc::content, the loop over chunk_paths and what follows it
RECURSIVE ContentLoop(_, _, _)
ContentLoop(chunk_paths, scripts, stylesheets) ==
    IF chunk_paths = <<>>
    THEN [op |-> "content", kind |-> "Ok", html |-> HtmlDocument(stylesheets, scripts)]
    ELSE LET relative_path == Head(chunk_paths)[1]
             chunk_id == Head(chunk_paths)[2]
         IN  IF EndsWith(relative_path, DotJs)
             THEN ContentLoop(Tail(chunk_paths),
                      Append(scripts, ScriptTag(relative_path)), stylesheets)
             ELSE IF EndsWith(relative_path, DotCss)
             THEN ContentLoop(Tail(chunk_paths), scripts,
                      Append(stylesheets, LinkTag(chunk_id, relative_path)))
             ELSE [op |-> "content", kind |-> "Err",
                   msg |-> UnknownAssetTypeMsg \o relative_path]

\* content() as it would be if the runtime script were pushed after the chunks
ContentOfRuntimeLast(c) ==
    ContentLoop(Append(c.chunk_paths, <<c.html_runtime_path, <<>>>>), <<>>, <<>>)

\* DevHtmlAssetContentVc::content: the runtime script is pushed first
ContentOf(c) ==
    ContentLoop(c.chunk_paths, <<ScriptTag(c.html_runtime_path)>>, <<>>)

\* DevHtmlAssetContentVc::version
VersionOf(c) == [type |-> "DevHtmlAssetVersion", chunk_paths |-> c.chunk_paths]

\* DevHtmlAssetVersion::id, the loop feeding the hasher
RECURSIVE IdLoop(_, _)
IdLoop(chunk_paths, hasher) ==
    IF chunk_paths = <<>> THEN hasher
    ELSE IdLoop(Tail(chunk_paths),
             Xxh3Write(Xxh3Write(hasher, AsBytes(Head(chunk_paths)[1])),
                       AsBytes(Head(chunk_paths)[2])))

\* DevHtmlAssetVersion::id
VersionId(version) == EncodeHex(Xxh3Finish(IdLoop(version.chunk_paths, Xxh3New)))

\* DevHtmlAssetVersionVc::resolve_from
ResolveFrom(version) ==
    IF version.type = "DevHtmlAssetVersion" THEN Some(version) ELSE None

\* update() as it would be if only the numbers of chunks were compared
UpdateOfByLength(c, version) ==
    LET from == ResolveFrom(version)
        to == VersionOf(c)
    IN  IF from = None
        THEN [op |-> "update", kind |-> "Panic", from |-> version, to |-> to]
        ELSE IF Len(to.chunk_paths) = Len(from[1].chunk_paths)
        THEN [op |-> "update", kind |-> "None", from |-> version, to |-> to]
        ELSE [op |-> "update", kind |-> "Err", from |-> version, to |-> to]

\* DevHtmlAssetContent::update
UpdateOf(c, version) ==
    LET from == ResolveFrom(version)
        to == VersionOf(c)
    IN  IF from = None
        THEN [op |-> "update", kind |-> "Panic", from |-> version, to |-> to]
        ELSE IF to.chunk_paths = from[1].chunk_paths
        THEN [op |-> "update", kind |-> "None", from |-> version, to |-> to]
        ELSE [op |-> "update", kind |-> "Err", from |-> version, to |-> to]

(***************************************************************************)
(* Operations on the HTML asset.                                           *)
(***************************************************************************)
\* DevHtmlAsset::new
DevHtmlAssetNew(path, chunk_groups) == [path |-> path, chunk_groups |-> chunk_groups]

\* the asset of the document before any chunk group is known
InitialAsset == DevHtmlAssetNew(DocumentPath, <<>>)

\* DevHtmlAsset::new for the next generation pass: the asset of the same
\* document with the chunk groups of that pass; nothing is computed for it yet
New ==
    /\ later # NoAsset
    /\ this' = later
    /\ later' = NoAsset
    /\ content' = NoContent
    /\ result' = NoResult
    /\ UNCHANGED <<from_version, id_vars, static_vars>>

\* DevHtmlAssetVc::html_content: the generation pass
HtmlContent ==
    /\ content = NoContent
    /\ content' = HtmlContentOf(this)
    /\ UNCHANGED <<this, later, from_version, result, id_vars, static_vars>>

\* VersionedContent::content
Content ==
    /\ content.kind = "DevHtmlAssetContent"
    /\ result' = ContentOf(content)
    /\ UNCHANGED <<this, later, content, from_version, id_vars, static_vars>>

\* VersionedContent::version; the caller keeps the version it is handed
Version ==
    /\ content.kind = "DevHtmlAssetContent"
    /\ result' = [op |-> "version", kind |-> "Ok", version |-> VersionOf(content)]
    /\ from_version' = [kind |-> "version", version |-> VersionOf(content),
                         of |-> content, asset |-> this]
    /\ UNCHANGED <<this, later, content, id_vars, static_vars>>

\* Version::id on the version the caller holds
Id ==
    /\ from_version.kind = "version"
    /\ result' = [op |-> "id", kind |-> "Ok", id |-> VersionId(from_version.version)]
    /\ UNCHANGED <<this, later, content, from_version, id_vars, static_vars>>

\* VersionedContent::update, called with the version the caller holds or with
\* a version of another type
Update ==
    /\ content.kind = "DevHtmlAssetContent"
    /\ \E version \in {OtherVersion} \cup
                      (IF from_version.kind = "version" THEN {from_version.version} ELSE {}) :
           result' = UpdateOf(content, version)
    /\ UNCHANGED <<this, later, content, from_version, id_vars, static_vars>>

\* one generation pass of an asset with any chunk groups (the fingerprint
\* study and the static assets are at rest)
Init ==
    /\ this \in {DevHtmlAssetNew(DocumentPath, chunk_groups) : chunk_groups \in ChunkGroupSeqs}
    /\ later = NoAsset
    /\ content = NoContent
    /\ from_version = NoVersion
    /\ result = NoResult
    /\ a_entries = <<>> /\ b_entries = <<>> /\ a_id = None /\ b_id = None
    /\ sources = <<>> /\ context = <<>> /\ resolved = <<>>
    /\ es_refs = None /\ es_content = None /\ css_refs = None /\ css_asset = None

Next ==
    \/ HtmlContent
    \/ Content
    \/ Version
    \/ Id
    \/ Update

Spec == Init /\ [][Next]_vars

\* two generation passes of one document, the second with other chunks
InitUpdate ==
    /\ this \in {DevHtmlAssetNew(DocumentPath, chunk_groups) :
                    chunk_groups \in UpdateChunkGroupSeqs}
    /\ later \in {DevHtmlAssetNew(DocumentPath, chunk_groups) :
                     chunk_groups \in UpdateChunkGroupSeqs}
    /\ content = NoContent
    /\ from_version = NoVersion
    /\ result = NoResult
    /\ a_entries = <<>> /\ b_entries = <<>> /\ a_id = None /\ b_id = None
    /\ sources = <<>> /\ context = <<>> /\ resolved = <<>>
    /\ es_refs = None /\ es_content = None /\ css_refs = None /\ css_asset = None

NextUpdate ==
    \/ New
    \/ HtmlContent
    \/ Content
    \/ Version
    \/ Id
    \/ Update

SpecUpdate == InitUpdate /\ [][NextUpdate]_vars

(***************************************************************************)
(* Properties of the HTML asset.                                           *)
(***************************************************************************)
\* the positions of a string at which a pattern begins
Occurrences(pattern, s) ==
    {i \in 1..(Len(s) - Len(pattern) + 1) : SubSeq(s, i, i + Len(pattern) - 1) = pattern}

Least(S) == CHOOSE i \in S : \A j \in S : i <= j

RECURSIVE Flatten(_)
Flatten(seqs) == IF seqs = <<>> THEN <<>> ELSE Head(seqs) \o Flatten(Tail(seqs))

\* the chunk entries a generation pass is to build for an asset
EntriesOf(asset) ==
    LET dir == Parent(asset.path)
        Kept(chunk) == GetRelativePathTo(dir, chunk.path) # None
        kept == SelectSeq(Flatten(asset.chunk_groups), Kept)
    IN  [i \in 1..Len(kept) |-> <<GetRelativePathTo(dir, kept[i].path)[1], kept[i].id>>]

IsJs(entry) == Extension(entry[1]) = Some(<<"j", "s">>)

IsCss(entry) == Extension(entry[1]) = Some(<<"c", "s", "s">>)

IsUnknown(entry) == ~IsJs(entry) /\ ~IsCss(entry)

Rendered == result.op = "content"

\* C9: the chunk entry sequence of a generation pass, which is also the
\* sequence of the version, is the chunks of all the groups in group order and
\* in each group's order, without the chunks that have no path relative to the
\* document's directory, each kept chunk paired with its own id; the runtime
\* script is not added to it.
C9_EntrySequence ==
    /\ content.kind = "DevHtmlAssetContent" => content.chunk_paths = EntriesOf(this)
    /\ result.op = "version" => result.version.chunk_paths = EntriesOf(this)

C9_Witness ==
    /\ result.op = "version"
    /\ this.chunk_groups = <<<<ChunkCss, ChunkElsewhere>>, <<ChunkJs>>>>
    /\ Len(result.version.chunk_paths) = 2

\* C5: when every entry is a script or a stylesheet, the document is the
\* template with the link tags of the stylesheet entries in entry order in the
\* head, and the runtime script tag followed by the script tags of the script
\* entries in entry order in the body.
C5_Document ==
    (Rendered /\ \A i \in 1..Len(content.chunk_paths) : ~IsUnknown(content.chunk_paths[i]))
    => LET css == SelectSeq(content.chunk_paths, IsCss)
           js == SelectSeq(content.chunk_paths, IsJs)
           links == [i \in 1..Len(css) |-> LinkTag(css[i][2], css[i][1])]
           scripts == <<ScriptTag(content.html_runtime_path)>>
                      \o [i \in 1..Len(js) |-> ScriptTag(js[i][1])]
       IN  /\ result.kind = "Ok"
           /\ result.html = HtmlHead \o Join(links, <<"\n">>) \o HtmlMiddle
                            \o Join(scripts, <<"\n">>) \o HtmlTail

C5_Witness ==
    /\ Rendered /\ result.kind = "Ok"
    /\ this.chunk_groups = <<<<ChunkCss2, ChunkJs>>, <<ChunkCss>>>>

\* C3 as claimed: in every document produced, the runtime script tag occurs
\* exactly once and is the first of the script tags.
C3_RuntimeOnceAndFirst ==
    (Rendered /\ result.kind = "Ok")
    => LET runtime == Occurrences(ScriptTag(content.html_runtime_path), result.html)
           all == Occurrences(ScriptOpen, result.html)
       IN  /\ Cardinality(runtime) = 1
           /\ all # {}
           /\ Least(all) \in runtime

\* the number of entries whose relative path is the runtime path
RuntimeNamesakes(c) ==
    Cardinality({i \in 1..Len(c.chunk_paths) : c.chunk_paths[i][1] = c.html_runtime_path})

\* C3 amended: the first script tag of every document produced is the runtime
\* script tag, and that tag occurs once for the runtime plus once for every
\* chunk entry whose relative path is the runtime path.
C3_RuntimeFirst ==
    (Rendered /\ result.kind = "Ok")
    => LET runtime == Occurrences(ScriptTag(content.html_runtime_path), result.html)
           all == Occurrences(ScriptOpen, result.html)
       IN  /\ Cardinality(runtime) = 1 + RuntimeNamesakes(content)
           /\ all # {}
           /\ Least(all) \in runtime

C3_Witness ==
    /\ Rendered /\ result.kind = "Ok"
    /\ this.chunk_groups = <<<<ChunkCss, ChunkJs>>, <<ChunkAtRuntime>>>>
    /\ RuntimeNamesakes(content) = 1

\* C4: when an entry is neither a script nor a stylesheet, content() fails with
\* the unknown-asset-type error naming the first such entry, and returns no
\* document.
C4_UnknownAssetType ==
    LET unknown == {i \in 1..Len(content.chunk_paths) : IsUnknown(content.chunk_paths[i])}
    IN  (Rendered /\ unknown # {})
        => result = [op |-> "content", kind |-> "Err",
                     msg |-> UnknownAssetTypeMsg \o content.chunk_paths[Least(unknown)][1]]

C4_Witness ==
    /\ Rendered /\ result.kind = "Err"
    /\ this.chunk_groups = <<<<ChunkCss, ChunkOdd2>>, <<ChunkOdd>>>>

\* C10: when update() against the version of an earlier content of the same
\* document reports no change, the earlier content and the current one render
\* the same: the same document or the same error.
C10_NoChangeIsSound ==
    (result.op = "update" /\ result.kind = "None")
    => /\ result.from = from_version.version
       /\ ContentOf(from_version.of) = ContentOf(content)

C10_Witness ==
    /\ result.op = "update" /\ result.kind = "None"
    /\ from_version.asset # this
    /\ Len(content.chunk_paths) = 1

\* C2 as claimed: update() reports no change exactly when the two fingerprint
\* strings are equal, and the unsupported failure exactly when they differ.
C2_FingerprintIsCriterion ==
    (result.op = "update" /\ result.from.type = "DevHtmlAssetVersion")
    => /\ result.kind = "None" <=> VersionId(result.from) = VersionId(result.to)
       /\ result.kind = "Err" <=> VersionId(result.from) # VersionId(result.to)

\* C7 as claimed: no operation aborts; update() called with any previous
\* version returns a result, no change or a failure.
C7_NoAbort ==
    result.op = "update" => result.kind \in {"None", "Err"}

(***************************************************************************)
(* The version id as a function of the chunk entries: two versions a and   *)
(* b over arbitrary entries, and their ids.                                *)
(***************************************************************************)
\* the strings the fields of an entry are drawn from
EntryStrings == {<<"a">>, <<"b">>, <<"a", "b">>}

EntrySeqs == SeqsUpTo(EntryStrings \X EntryStrings, MaxEntries)

InitId ==
    /\ a_entries \in EntrySeqs
    /\ b_entries \in EntrySeqs
    /\ a_id = None
    /\ b_id = None
    /\ this = InitialAsset
    /\ later = NoAsset
    /\ content = NoContent
    /\ from_version = NoVersion
    /\ result = NoResult
    /\ sources = <<>> /\ context = <<>> /\ resolved = <<>>
    /\ es_refs = None /\ es_content = None /\ css_refs = None /\ css_asset = None

\* Version::id on version a
IdA ==
    /\ a_id = None
    /\ a_id' = Some(VersionId([type |-> "DevHtmlAssetVersion", chunk_paths |-> a_entries]))
    /\ UNCHANGED <<a_entries, b_entries, b_id, html_vars, static_vars>>

\* Version::id on version b
IdB ==
    /\ b_id = None
    /\ b_id' = Some(VersionId([type |-> "DevHtmlAssetVersion", chunk_paths |-> b_entries]))
    /\ UNCHANGED <<a_entries, b_entries, a_id, html_vars, static_vars>>

NextId ==
    \/ IdA
    \/ IdB

SpecId == InitId /\ [][NextId]_vars

\* C1 as claimed: the ids of two versions are equal if and only if their entry
\* sequences are equal.
C1_IdIffSameEntries ==
    (a_id # None /\ b_id # None) => (a_id = b_id <=> a_entries = b_entries)

(***************************************************************************)
(* Hashing and output paths for static assets (turbopack_hash and the      *)
(* chunking context, collaborators).  The content hash is taken as         *)
(* collision-free: the digest is the content behind its length.            *)
(***************************************************************************)
\* turbopack_hash::hash_md4
HashMd4(bytes) == <<Len(bytes)>> \o bytes

\* turbopack_hash::encode_base16
EncodeBase16(digest) == HexOf(digest)

\* ChunkingContext::asset_path: the asset's name below the context's asset root
AssetPath(chunking_context, asset_path) == PathJoin(chunking_context.asset_root, asset_path)

\* turbopack_ecmascript::utils::stringify_str: the JSON text of a string
RECURSIVE JsonEscape(_)
JsonEscape(s) ==
    IF s = <<>> THEN <<>>
    ELSE (IF Head(s) \in {"\"", "\\"} THEN <<"\\", Head(s)>> ELSE <<Head(s)>>)
         \o JsonEscape(Tail(s))

StringifyStr(s) == <<"\"">> \o JsonEscape(s) \o <<"\"">>

(***************************************************************************)
(* String constants of lib.rs.                                             *)
(***************************************************************************)
\* "static(url) {}" before the path
StaticUrlLabel ==
    <<"s", "t", "a", "t", "i", "c", "(", "u", "r", "l", ")", " ">>

\* "__turbopack_export_value__({path});" before the path ...
ExportValueOpen ==
    <<"_", "_", "t", "u", "r", "b", "o", "p", "a", "c", "k", "_", "e", "x", "p", "o",
      "r", "t", "_", "v", "a", "l", "u", "e", "_", "_", "(">>

\* ... and after it
ExportValueClose == <<")", ";">>

\* the message of the error for content that is not materialized
UnsupportedContentMsg ==
    <<"S", "t", "a", "t", "i", "c", "A", "s", "s", "e", "t", ":", ":", "p", "a", "t",
      "h", ":", " ", "u", "n", "s", "u", "p", "p", "o", "r", "t", "e", "d", " ", "f",
      "i", "l", "e", " ", "c", "o", "n", "t", "e", "n", "t">>

(***************************************************************************)
(* The sources and chunking contexts of the static assets.                 *)
(***************************************************************************)
SourcePaths ==
    {[fs |-> "root", path |-> <<"i", "m", "g", "/", "a", ".", "p", "n", "g">>],
     [fs |-> "root", path |-> <<"l", "i", "b", "/", "b", ".", "p", "n", "g">>],
     [fs |-> "root", path |-> <<"i", "m", "g", "/", "a", ".", "j", "p", "g">>],
     [fs |-> "root", path |-> <<"i", "m", "g", "/", "R", "E", "A", "D", "M", "E">>]}

\* the byte values of the model's files
ByteValues == {7, 255}

\* FileContent: a file with its bytes, or no file
FileContents ==
    {[kind |-> "Content", bytes |-> bytes] : bytes \in SeqsUpTo(ByteValues, MaxBytes)}
    \cup {[kind |-> "NotFound"]}

Sources == [path : SourcePaths, content : FileContents]

ChunkingContexts ==
    {[asset_root |-> [fs |-> "out", path |-> <<"a", "s", "s", "e", "t", "s">>]],
     [asset_root |-> [fs |-> "out", path |-> <<>>]]}

(***************************************************************************)
(* lib.rs.                                                                 *)
(***************************************************************************)
\* StaticModuleAssetVc::new
StaticModuleAssetNew(source) == [source |-> source]

\* StaticModuleAssetVc::static_asset
StaticAssetOf(module, chunking_context) ==
    [context |-> chunking_context, source |-> module.source]

\* path() as it would be if the extension were left out
StaticAssetPathNoExtension(asset) ==
    LET file_content == asset.source.content
    IN  IF file_content.kind # "Content"
        THEN [kind |-> "Err", msg |-> UnsupportedContentMsg]
        ELSE [kind |-> "Ok",
              path |-> AssetPath(asset.context, EncodeBase16(HashMd4(file_content.bytes)))]

\* StaticAsset::path
StaticAssetPath(asset) ==
    LET source_path == asset.source.path
        file_content == asset.source.content
    IN  IF file_content.kind # "Content"
        THEN [kind |-> "Err", msg |-> UnsupportedContentMsg]
        ELSE LET content_hash == HashMd4(file_content.bytes)
                 content_hash_b16 == EncodeBase16(content_hash)
                 ext == Extension(source_path.path)
                 asset_path == IF ext # None THEN content_hash_b16 \o <<".">> \o ext[1]
                               ELSE content_hash_b16
             IN  [kind |-> "Ok", path |-> AssetPath(asset.context, asset_path)]

\* EcmascriptChunkPlaceable::as_chunk_item
AsChunkItem(module, chunking_context) ==
    [module |-> module,
     context |-> chunking_context,
     static_asset |-> StaticAssetOf(module, chunking_context)]

\* CssEmbeddable::as_css_embed
AsCssEmbed(module, chunking_context) ==
    [static_asset |-> StaticAssetOf(module, chunking_context)]

\* ChunkItem::references of ModuleChunkItem
ModuleChunkItemReferences(item) ==
    LET path == StaticAssetPath(item.static_asset)
    IN  IF path.kind = "Err" THEN path
        ELSE [kind |-> "Ok",
              references |-> <<[asset |-> item.static_asset,
                                description |-> StaticUrlLabel \o PathDisplay(path.path)]>>]

\* EcmascriptChunkItem::content of ModuleChunkItem
ModuleChunkItemContent(item) ==
    LET path == StaticAssetPath(item.static_asset)
    IN  IF path.kind = "Err" THEN path
        ELSE [kind |-> "Ok",
              inner_code |-> ExportValueOpen
                             \o StringifyStr(<<"/">> \o PathDisplay(path.path))
                             \o ExportValueClose]

\* references() as it would be if the label named the source path
StaticCssEmbedReferencesOfSource(embed) ==
    LET path == StaticAssetPath(embed.static_asset)
    IN  IF path.kind = "Err" THEN path
        ELSE [kind |-> "Ok",
              references |-> <<[asset |-> embed.static_asset,
                                description |-> StaticUrlLabel
                                    \o PathDisplay(embed.static_asset.source.path)]>>]

\* CssEmbed::references of StaticCssEmbed
StaticCssEmbedReferences(embed) ==
    LET path == StaticAssetPath(embed.static_asset)
    IN  IF path.kind = "Err" THEN path
        ELSE [kind |-> "Ok",
              references |-> <<[asset |-> embed.static_asset,
                                description |-> StaticUrlLabel \o PathDisplay(path.path)]>>]

\* CssEmbed::embeddable_asset of StaticCssEmbed
EmbeddableAsset(embed) == embed.static_asset

(***************************************************************************)
(* Operations on the static assets: two sources resolved in one chunking   *)
(* context, the first of them also through both adapters.                  *)
(***************************************************************************)
InitStatic ==
    /\ sources \in [1..2 -> Sources]
    /\ context \in ChunkingContexts
    /\ resolved = [i \in 1..2 |-> None]
    /\ es_refs = None
    /\ es_content = None
    /\ css_refs = None
    /\ css_asset = None
    /\ this = InitialAsset
    /\ later = NoAsset
    /\ content = NoContent
    /\ from_version = NoVersion
    /\ result = NoResult
    /\ a_entries = <<>> /\ b_entries = <<>> /\ a_id = None /\ b_id = None

\* Asset::path of the static asset of a source
ResolvePath ==
    /\ \E i \in 1..2 :
         /\ resolved[i] = None
         /\ resolved' = [resolved EXCEPT ![i] =
                Some(StaticAssetPath(StaticAssetOf(StaticModuleAssetNew(sources[i]), context)))]
    /\ UNCHANGED <<sources, context, es_refs, es_content, css_refs, css_asset,
                   html_vars, id_vars>>

\* as_chunk_item(context).references()
EsReferences ==
    /\ es_refs = None
    /\ es_refs' = Some(ModuleChunkItemReferences(
                           AsChunkItem(StaticModuleAssetNew(sources[1]), context)))
    /\ UNCHANGED <<sources, context, resolved, es_content, css_refs, css_asset,
                   html_vars, id_vars>>

\* as_chunk_item(context).content()
EsContent ==
    /\ es_content = None
    /\ es_content' = Some(ModuleChunkItemContent(
                              AsChunkItem(StaticModuleAssetNew(sources[1]), context)))
    /\ UNCHANGED <<sources, context, resolved, es_refs, css_refs, css_asset,
                   html_vars, id_vars>>

\* as_css_embed(context).references()
CssReferences ==
    /\ css_refs = None
    /\ css_refs' = Some(StaticCssEmbedReferences(
                            AsCssEmbed(StaticModuleAssetNew(sources[1]), context)))
    /\ UNCHANGED <<sources, context, resolved, es_refs, es_content, css_asset,
                   html_vars, id_vars>>

\* as_css_embed(context).embeddable_asset()
CssEmbeddableAsset ==
    /\ css_asset = None
    /\ css_asset' = Some(EmbeddableAsset(AsCssEmbed(StaticModuleAssetNew(sources[1]), context)))
    /\ UNCHANGED <<sources, context, resolved, es_refs, es_content, css_refs,
                   html_vars, id_vars>>

NextStatic ==
    \/ ResolvePath
    \/ EsReferences
    \/ EsContent
    \/ CssReferences
    \/ CssEmbeddableAsset

SpecStatic == InitStatic /\ [][NextStatic]_vars

(***************************************************************************)
(* Properties of the static assets.                                        *)
(***************************************************************************)
BothResolved ==
    /\ resolved[1] # None /\ resolved[2] # None
    /\ resolved[1][1].kind = "Ok" /\ resolved[2][1].kind = "Ok"

\* C6 as claimed: two resolutions in one chunking context have equal output
\* paths if and only if the source bytes are equal, whatever the source paths.
C6_PathIffSameBytes ==
    BothResolved
    => (resolved[1][1].path = resolved[2][1].path
        <=> sources[1].content.bytes = sources[2].content.bytes)

\* C6 amended: two resolutions in one chunking context have equal output paths
\* if and only if the source bytes are equal and the source paths have the same
\* extension (or both have none); the directory and the file name of the source
\* play no part.
C6_PathIffSameBytesAndExtension ==
    BothResolved
    => (resolved[1][1].path = resolved[2][1].path
        <=> /\ sources[1].content.bytes = sources[2].content.bytes
            /\ Extension(sources[1].path.path) = Extension(sources[2].path.path))

C6_Witness ==
    /\ BothResolved
    /\ sources[1].path.path = <<"i", "m", "g", "/", "a", ".", "p", "n", "g">>
    /\ sources[2].path.path = <<"l", "i", "b", "/", "b", ".", "p", "n", "g">>
    /\ sources[1].content.bytes = <<255>>
    /\ sources[2].content.bytes = <<255>>
    /\ resolved[1][1].path = resolved[2][1].path

\* the value of a JSON string text
RECURSIVE JsonUnescape(_)
JsonUnescape(s) ==
    IF s = <<>> THEN <<>>
    ELSE IF Head(s) = "\\" THEN <<s[2]>> \o JsonUnescape(Tail(Tail(s)))
    ELSE <<Head(s)>> \o JsonUnescape(Tail(s))

\* the value a module body exports with __turbopack_export_value__("...");
ExportedValue(inner_code) ==
    LET literal == SubSeq(inner_code, Len(ExportValueOpen) + 1,
                          Len(inner_code) - Len(ExportValueClose))
    IN  JsonUnescape(SubSeq(literal, 2, Len(literal) - 1))

\* C8: for one source and one chunking context the two adapters resolve to the
\* same static asset: their references are the same, to the same asset under
\* the label "static(url) " and the output path; the embeddable asset of the
\* CSS adapter is that asset; the ES module exports "/" and the output path.
C8_AdaptersAgree ==
    LET asset == StaticAssetOf(StaticModuleAssetNew(sources[1]), context)
    IN  /\ (es_refs # None /\ css_refs # None) => es_refs = css_refs
        /\ css_asset # None
           => /\ css_asset[1] = asset
              /\ resolved[1] # None => StaticAssetPath(css_asset[1]) = resolved[1][1]
        /\ (es_refs # None /\ es_refs[1].kind = "Ok")
           => /\ Len(es_refs[1].references) = 1
              /\ es_refs[1].references[1].asset = asset
        /\ (css_refs # None /\ css_refs[1].kind = "Ok")
           => /\ Len(css_refs[1].references) = 1
              /\ css_refs[1].references[1].asset = asset
        /\ resolved[1] # None
           => /\ es_refs # None
                 => IF resolved[1][1].kind = "Err" THEN es_refs[1].kind = "Err"
                    ELSE es_refs[1].references[1].description
                         = StaticUrlLabel \o resolved[1][1].path.path
              /\ css_refs # None
                 => IF resolved[1][1].kind = "Err" THEN css_refs[1].kind = "Err"
                    ELSE css_refs[1].references[1].description
                         = StaticUrlLabel \o resolved[1][1].path.path
              /\ es_content # None
                 => IF resolved[1][1].kind = "Err" THEN es_content[1].kind = "Err"
                    ELSE /\ StartsWith(es_content[1].inner_code, ExportValueOpen)
                         /\ EndsWith(es_content[1].inner_code, ExportValueClose)
                         /\ ExportedValue(es_content[1].inner_code)
                            = <<"/">> \o resolved[1][1].path.path

C8_Witness ==
    /\ resolved[1] # None /\ resolved[1][1].kind = "Ok"
    /\ es_refs # None /\ css_refs # None /\ es_content # None /\ css_asset # None
    /\ Extension(sources[1].path.path) # None

====
